---- MODULE Spec2Model ----
(***************************************************************************)
(* A model of the 0xVM core: the register file, the memory mapper, the     *)
(* stack discipline (push / pop / push_state / pop_state), the status      *)
(* register and the bitwise instruction handlers.                          *)
(*                                                                         *)
(* A Word is an unsigned 32-bit integer.  It is kept as the pair           *)
(* <<hi, lo>> of its two 16-bit halves, so that every word of the machine  *)
(* keeps its full width (value = hi * 65536 + lo).                         *)
(***************************************************************************)
EXTENDS Integers, Sequences, FiniteSets, TLC

VARIABLES
    regions,          \* MemoryMapper.regions: front of the list is index 1
    devices,          \* the byte buffer behind each mapped device
    registers,        \* CPU.registers: the register file, a byte buffer
    stackframe_size,  \* CPU.stackframe_size
    halt_signal,      \* CPU.halt_signal
    stack_start,      \* CPU.stack_start
    stack_size,       \* CPU.stack_size
    stack_set,        \* CPU.stack_set
    fault,            \* "none", or the fatal fault (panic) that ended execution
    overflow_checks,  \* the build: TRUE panics on integer overflow, FALSE wraps
    running,          \* TRUE while run() is inside its loop
    access,           \* history: the last device accessor the mapper invoked
    mapped,           \* history: the map calls, in call order
    written,          \* history: the last word stored through the mapper
    frames,           \* history: one record per push_state not yet returned from
    cur,              \* history: the pushes of the current frame not yet popped
    last,             \* history: the last CPU method called and what it saw
    exec,             \* history: the last instruction step() executed
    nops,             \* history: number of method calls made so far
    input,            \* parser library: the Context the parser is called with
    parser,           \* parser library: the parser handed to parse()
    loop_ctx,         \* many(): ctx, the context of the next application
    ret,              \* many(): ret, the values collected so far
    result,           \* what the parser returned to parse()
    phase,            \* "idle", "called", "many" (inside many's loop), "done"
    tick              \* history: parity of the turns many's loop has taken

vars == <<regions, devices, registers, stackframe_size, halt_signal, stack_start,
          stack_size, stack_set, fault, overflow_checks, running, access, mapped,
          written, frames, cur, last, exec, nops, input, parser, loop_ctx, ret,
          result, phase, tick>>

vars_machine == <<regions, devices, registers, stackframe_size, halt_signal,
                  stack_start, stack_size, stack_set, fault, overflow_checks,
                  running, access, mapped, written, frames, cur, last, exec, nops>>

parseVars == <<input, parser, loop_ctx, ret, result, phase, tick>>

\* the parser library is not in use
NoParse ==
    /\ input = [txt |-> <<>>, pos |-> 0]
    /\ parser = <<>>
    /\ loop_ctx = [txt |-> <<>>, pos |-> 0]
    /\ ret = <<>>
    /\ result = <<>>
    /\ phase = "idle"
    /\ tick = 0

cpuVars == <<registers, stackframe_size, halt_signal, stack_start, stack_size,
             stack_set, fault, running>>

-----------------------------------------------------------------------------
(* Words *)

Half == 2 ^ 16

W(n) == <<n \div Half, n % Half>>       \* the word of a natural below 2^31

Zero == <<0, 0>>

WLt(a, b) == a[1] < b[1] \/ (a[1] = b[1] /\ a[2] < b[2])

WLe(a, b) == a = b \/ WLt(a, b)

\* a + b on u32: the wrapped sum and whether it overflowed
WAdd(a, b) ==
    LET lo == a[2] + b[2]
        hi == a[1] + b[1] + (lo \div Half)
    IN  [val |-> <<hi % Half, lo % Half>>, ovf |-> hi >= Half]

\* a - b on u32: the wrapped difference and whether it underflowed
WSub(a, b) ==
    LET lo == a[2] - b[2]
        hi == a[1] - b[1] - (IF lo < 0 THEN 1 ELSE 0)
    IN  [val |-> <<(hi + Half) % Half, (lo + Half) % Half>>, ovf |-> hi < 0]

RECURSIVE BitAnd(_, _, _)
BitAnd(x, y, n) ==
    IF n = 0 THEN 0
    ELSE (x % 2) * (y % 2) + 2 * BitAnd(x \div 2, y \div 2, n - 1)

RECURSIVE BitOr(_, _, _)
BitOr(x, y, n) ==
    IF n = 0 THEN 0
    ELSE (IF (x % 2) + (y % 2) > 0 THEN 1 ELSE 0) + 2 * BitOr(x \div 2, y \div 2, n - 1)

RECURSIVE BitXor(_, _, _)
BitXor(x, y, n) ==
    IF n = 0 THEN 0
    ELSE ((x + y) % 2) + 2 * BitXor(x \div 2, y \div 2, n - 1)

WAnd(a, b) == <<BitAnd(a[1], b[1], 16), BitAnd(a[2], b[2], 16)>>
WOr(a, b)  == <<BitOr(a[1], b[1], 16), BitOr(a[2], b[2], 16)>>
WXor(a, b) == <<BitXor(a[1], b[1], 16), BitXor(a[2], b[2], 16)>>
WNot(a)    == <<Half - 1 - a[1], Half - 1 - a[2]>>

Shl1(a) == <<(2 * a[1] + a[2] \div (Half \div 2)) % Half, (2 * a[2]) % Half>>
Shr1(a) == <<a[1] \div 2, (a[1] % 2) * (Half \div 2) + a[2] \div 2>>
Rol1(a) == <<(2 * a[1] + a[2] \div (Half \div 2)) % Half, (2 * a[2] + a[1] \div (Half \div 2)) % Half>>
Ror1(a) == <<(a[2] % 2) * (Half \div 2) + a[1] \div 2, (a[1] % 2) * (Half \div 2) + a[2] \div 2>>

RECURSIVE ShlN(_, _)
ShlN(a, k) == IF k = 0 THEN a ELSE ShlN(Shl1(a), k - 1)
RECURSIVE ShrN(_, _)
ShrN(a, k) == IF k = 0 THEN a ELSE ShrN(Shr1(a), k - 1)
RECURSIVE RolN(_, _)
RolN(a, k) == IF k = 0 THEN a ELSE RolN(Rol1(a), k - 1)
RECURSIVE RorN(_, _)
RorN(a, k) == IF k = 0 THEN a ELSE RorN(Ror1(a), k - 1)

\* u32::wrapping_shl / wrapping_shr / rotate_left / rotate_right with a u32 amount
\* mutant: the amount is not reduced, 32 and more shift every bit out
shl_unmasked(a, k) == IF k[1] = 0 /\ k[2] < 32 THEN ShlN(a, k[2]) ELSE Zero
wrapping_shl(a, k) == ShlN(a, k[2] % 32)
wrapping_shr(a, k) == ShrN(a, k[2] % 32)
\* mutant: the bits shifted out are lost
rotate_left_lossy(a, k) == wrapping_shl(a, k)
rotate_left(a, k)  == RolN(a, k[2] % 32)
rotate_right(a, k) == RorN(a, k[2] % 32)

\* bit n (0 = least significant) of a word
WBit(a, n) == IF n < 16 THEN (a[2] \div (2 ^ n)) % 2 ELSE (a[1] \div (2 ^ (n - 16))) % 2

-----------------------------------------------------------------------------
(* Memory: a byte buffer; byte a of the buffer is element a + 1 of the     *)
(* sequence.  Words are big-endian.  An access outside the buffer is fatal.*)

MemNew(size) == [i \in 1..size |-> 0]

\* the word address a as a buffer index, or -1 when it is beyond every buffer
Idx(a) == IF a[1] = 0 THEN a[2] ELSE -1

MemOk(m, a, n) == Idx(a) >= 0 /\ Idx(a) + n <= Len(m)

MemGetByte(m, a) == m[Idx(a) + 1]

MemGetWord(m, a) ==
    LET i == Idx(a)
    IN  <<m[i + 1] * 256 + m[i + 2], m[i + 3] * 256 + m[i + 4]>>

MemSetByte(m, a, b) == [m EXCEPT ![Idx(a) + 1] = b]

MemSetWord(m, a, w) ==
    LET i == Idx(a)
    IN  [m EXCEPT ![i + 1] = w[1] \div 256, ![i + 2] = w[1] % 256,
                  ![i + 3] = w[2] \div 256, ![i + 4] = w[2] % 256]

MemOrSetByte(m, a, mask) == [m EXCEPT ![Idx(a) + 1] = BitOr(@, mask, 8)]

MemAndSetByte(m, a, mask) == [m EXCEPT ![Idx(a) + 1] = BitAnd(@, mask, 8)]

-----------------------------------------------------------------------------
(* The register file: byte offsets of the registers (the reg! macro).      *)

r1 == 0
r2 == 4
r8 == 28
pc == 32
acc == 36
sr == 40
sp == 44
fp == 48
REGISTER_COUNT == 13

\* The machine as one record, so that the methods below are functions from
\* machine to machine.  A machine that has faulted no longer changes.
M == [regions |-> regions, devices |-> devices, registers |-> registers,
      stackframe_size |-> stackframe_size, halt_signal |-> halt_signal,
      stack_start |-> stack_start, stack_size |-> stack_size,
      stack_set |-> stack_set, fault |-> fault,
      overflow_checks |-> overflow_checks]

Install(s) ==
    /\ regions' = s.regions
    /\ devices' = s.devices
    /\ registers' = s.registers
    /\ stackframe_size' = s.stackframe_size
    /\ halt_signal' = s.halt_signal
    /\ stack_start' = s.stack_start
    /\ stack_size' = s.stack_size
    /\ stack_set' = s.stack_set
    /\ fault' = s.fault
    /\ overflow_checks' = s.overflow_checks

Fault(s, f) == IF s.fault = "none" THEN [s EXCEPT !.fault = f] ELSE s

\* sequencing: e is evaluated to a value first, then F is applied to it
Then(e, F(_)) == CHOOSE r \in {F(x) : x \in {e}} : TRUE

Ok(s) == s.fault = "none"

-----------------------------------------------------------------------------
(* MemoryMapper *)

Region(device, start, end, remap) ==
    [device |-> device, start |-> start, end |-> end, remap |-> remap]

\* index of the first region of the list containing addr; 0 stands for the panic
\* mutant: the end of a region belongs to it
find_region_closed(rs, addr) ==
    LET hits == {i \in 1..Len(rs) : WLe(rs[i].start, addr) /\ WLe(addr, rs[i].end)}
    IN  IF hits = {} THEN 0 ELSE CHOOSE i \in hits : \A j \in hits : i <= j

find_region(rs, addr) ==
    LET hits == {i \in 1..Len(rs) : WLe(rs[i].start, addr) /\ WLt(addr, rs[i].end)}
    IN  IF hits = {} THEN 0 ELSE CHOOSE i \in hits : \A j \in hits : i <= j

\* mutant: the device is always given the absolute address
get_region_and_addr_absolute(rs, addr) ==
    [region_index |-> find_region(rs, addr), final_addr |-> addr]

get_region_and_addr(rs, addr) ==
    LET region_index == find_region(rs, addr)
    IN  IF region_index = 0 THEN [region_index |-> 0, final_addr |-> addr]
        ELSE [region_index |-> region_index,
              final_addr |-> IF rs[region_index].remap
                             THEN WSub(addr, rs[region_index].start).val
                             ELSE addr]

\* mutant: the region is added at the back of the list
map_back(rs, device, start, end, remap) == rs \o <<Region(device, start, end, remap)>>

map(rs, device, start, end, remap) == <<Region(device, start, end, remap)>> \o rs

\* a device is a Memory: its accessors fault outside the buffer
DeviceOk(s, d, a, n) == MemOk(s.devices[d], a, n)

\* what a mapper accessor of width n at addr does: the fault it raises, if any,
\* and the device accessor call it makes
Dispatch(s, addr, n) ==
    LET ra == get_region_and_addr(s.regions, addr)
    IN  IF ra.region_index = 0
        THEN [fault |-> "mapper", device |-> 0, addr |-> addr]
        ELSE LET d == s.regions[ra.region_index].device
             IN  [fault |-> IF DeviceOk(s, d, ra.final_addr, n) THEN "none" ELSE "memory",
                  device |-> d, addr |-> ra.final_addr]

\* mutant: the word is read at the absolute address
mm_get_word_absolute(s, addr) ==
    LET c == Dispatch(s, addr, 4)
    IN  IF ~Ok(s) THEN [st |-> s, val |-> Zero]
        ELSE IF c.fault # "none" \/ ~DeviceOk(s, c.device, addr, 4)
             THEN [st |-> Fault(s, "memory"), val |-> Zero]
        ELSE [st |-> s, val |-> MemGetWord(s.devices[c.device], addr)]

mm_get_word(s, addr) ==
    LET c == Dispatch(s, addr, 4)
    IN  IF ~Ok(s) THEN [st |-> s, val |-> Zero]
        ELSE IF c.fault # "none" THEN [st |-> Fault(s, c.fault), val |-> Zero]
        ELSE [st |-> s, val |-> MemGetWord(s.devices[c.device], c.addr)]

mm_get_byte(s, addr) ==
    LET c == Dispatch(s, addr, 1)
    IN  IF ~Ok(s) THEN [st |-> s, val |-> 0]
        ELSE IF c.fault # "none" THEN [st |-> Fault(s, c.fault), val |-> 0]
        ELSE [st |-> s, val |-> MemGetByte(s.devices[c.device], c.addr)]

\* mutant: the word is stored byte by byte, each byte dispatched by its own
\* address
mm_set_word_bytewise(s, addr, value) ==
    LET b == <<value[1] \div 256, value[1] % 256, value[2] \div 256, value[2] % 256>>
        SetB(t, i) ==
            LET c == Dispatch(t, WAdd(addr, W(i)).val, 1)
            IN  IF ~Ok(t) THEN t
                ELSE IF c.fault # "none" THEN Fault(t, c.fault)
                ELSE [t EXCEPT !.devices[c.device] = MemSetByte(@, c.addr, b[i + 1])]
    IN  SetB(SetB(SetB(SetB(s, 0), 1), 2), 3)

mm_set_word(s, addr, value) ==
    LET c == Dispatch(s, addr, 4)
    IN  IF ~Ok(s) THEN s
        ELSE IF c.fault # "none" THEN Fault(s, c.fault)
        ELSE [s EXCEPT !.devices[c.device] = MemSetWord(@, c.addr, value)]

mm_set_byte(s, addr, value) ==
    LET c == Dispatch(s, addr, 1)
    IN  IF ~Ok(s) THEN s
        ELSE IF c.fault # "none" THEN Fault(s, c.fault)
        ELSE [s EXCEPT !.devices[c.device] = MemSetByte(@, c.addr, value)]

-----------------------------------------------------------------------------
(* CPU *)

RegOk(s, addr) == MemOk(s.registers, addr, 4)

get_reg(s, addr) == IF RegOk(s, addr) THEN MemGetWord(s.registers, addr) ELSE Zero

set_reg(s, addr, val) ==
    IF ~Ok(s) THEN s
    ELSE IF ~RegOk(s, addr) THEN Fault(s, "memory")
    ELSE [s EXCEPT !.registers = MemSetWord(@, addr, val)]

\* integer overflow: a panic in a build with overflow checks, else wrapping
Arith(s, r) == IF s.overflow_checks /\ r.ovf THEN Fault(s, "overflow") ELSE s

set_stack(s, stack_addr, size) ==
    LET top == WSub(stack_addr, W(4))
        s1 == [s EXCEPT !.stack_start = stack_addr, !.stack_size = size]
    IN  Then(set_reg(Arith(s1, top), W(sp), top.val), LAMBDA s2 :
        Then(set_reg(s2, W(fp), top.val), LAMBDA s3 :
        IF Ok(s3) THEN [s3 EXCEPT !.stack_set = TRUE] ELSE s3))

update_sr(s, pre, post) ==
    LET sr_addr == W(sr)
        m1 == IF post = Zero THEN MemOrSetByte(s.registers, sr_addr, 1)
              ELSE MemAndSetByte(s.registers, sr_addr, 254)
        m2 == IF WLt(post, pre) THEN MemOrSetByte(m1, sr_addr, 2)
              ELSE MemAndSetByte(m1, sr_addr, 253)
    IN  IF ~Ok(s) THEN s ELSE [s EXCEPT !.registers = m2]

get_status_flag(s, n) ==
    WAnd(get_reg(s, W(sr)), wrapping_shl(W(1), W(n))) # Zero

fetch_byte(s) ==
    LET next_instr_addr == get_reg(s, W(pc))
        inc == WAdd(next_instr_addr, W(1))
    IN  Then(set_reg(Arith(s, inc), W(pc), inc.val), LAMBDA s1 :
        mm_get_byte(s1, next_instr_addr))

fetch_word(s) ==
    LET next_instr_addr == get_reg(s, W(pc))
        inc == WAdd(next_instr_addr, W(4))
    IN  Then(set_reg(Arith(s, inc), W(pc), inc.val), LAMBDA s1 :
        mm_get_word(s1, next_instr_addr))

push(s, val) ==
    LET sp_addr == get_reg(s, W(sp))
        low == WSub(sp_addr, W(4))
        limit == WSub(s.stack_start, s.stack_size)
        s0 == Arith(Arith(s, low), limit)
    IN  IF ~Ok(s0) THEN s0
        ELSE IF WLt(low.val, limit.val) THEN Fault(s0, "stack_overflow")
        ELSE Then(mm_set_word(s0, sp_addr, val), LAMBDA s1 :
             Then(set_reg(s1, W(sp), low.val), LAMBDA s2 :
             LET grown == WAdd(s2.stackframe_size, W(4))
                 s3 == Arith(s2, grown)
             IN  IF ~Ok(s3) THEN s3
                 ELSE [s3 EXCEPT !.stackframe_size = grown.val]))

\* mutant: the word is read at sp before sp moves
pop_stale(s) ==
    LET at == get_reg(s, W(sp))
        next == WAdd(at, W(4))
        limit == WSub(s.stack_start, W(3))
        s0 == Arith(Arith(s, next), limit)
    IN  IF ~Ok(s0) THEN [st |-> s0, val |-> Zero, read |-> <<>>]
        ELSE IF WLt(limit.val, next.val)
             THEN [st |-> Fault(s0, "stack_underflow"), val |-> Zero, read |-> <<>>]
        ELSE Then(set_reg(s0, W(sp), next.val), LAMBDA s1 :
             LET shrunk == WSub(s1.stackframe_size, W(4))
                 s2 == Arith(s1, shrunk)
                 s3 == IF Ok(s2) THEN [s2 EXCEPT !.stackframe_size = shrunk.val] ELSE s2
                 g == mm_get_word(s3, at)
             IN  [st |-> g.st, val |-> g.val,
                  read |-> IF Ok(s3) THEN <<at>> ELSE <<>>])

\* mutant: the guard lets sp reach stack_start
pop_late(s) ==
    LET next == WAdd(get_reg(s, W(sp)), W(4))
        limit == s.stack_start
        s0 == Arith(s, next)
    IN  IF ~Ok(s0) THEN [st |-> s0, val |-> Zero, read |-> <<>>]
        ELSE IF WLt(limit, next.val)
             THEN [st |-> Fault(s0, "stack_underflow"), val |-> Zero, read |-> <<>>]
        ELSE Then(set_reg(s0, W(sp), next.val), LAMBDA s1 :
             LET shrunk == WSub(s1.stackframe_size, W(4))
                 s2 == Arith(s1, shrunk)
                 s3 == IF Ok(s2) THEN [s2 EXCEPT !.stackframe_size = shrunk.val] ELSE s2
                 g == mm_get_word(s3, next.val)
             IN  [st |-> g.st, val |-> g.val,
                  read |-> IF Ok(s3) THEN <<next.val>> ELSE <<>>])

pop(s) ==
    LET next == WAdd(get_reg(s, W(sp)), W(4))
        limit == WSub(s.stack_start, W(3))
        s0 == Arith(Arith(s, next), limit)
    IN  IF ~Ok(s0) THEN [st |-> s0, val |-> Zero, read |-> <<>>]
        ELSE IF WLt(limit.val, next.val)
             THEN [st |-> Fault(s0, "stack_underflow"), val |-> Zero, read |-> <<>>]
        ELSE Then(set_reg(s0, W(sp), next.val), LAMBDA s1 :
             LET shrunk == WSub(s1.stackframe_size, W(4))
                 s2 == Arith(s1, shrunk)
                 s3 == IF Ok(s2) THEN [s2 EXCEPT !.stackframe_size = shrunk.val] ELSE s2
                 g == mm_get_word(s3, next.val)
             IN  [st |-> g.st, val |-> g.val,
                  read |-> IF Ok(s3) THEN <<next.val>> ELSE <<>>])

\* for i in 0..8 { self.push(self.get_reg(i * 4)) }
RECURSIVE PushRegs(_, _)
PushRegs(s, i) ==
    IF i = 8 THEN s
    ELSE Then(push(s, get_reg(s, W(i * 4))), LAMBDA t : PushRegs(t, i + 1))

push_state(s) ==
    Then(PushRegs(s, 0), LAMBDA s8 :
    Then(push(s8, get_reg(s8, W(pc))), LAMBDA s9 :
    LET slot == WAdd(s9.stackframe_size, W(4))
    IN  Then(push(Arith(s9, slot), slot.val), LAMBDA s10 :
        Then(set_reg(s10, W(fp), get_reg(s10, W(sp))), LAMBDA s11 :
        IF Ok(s11) THEN [s11 EXCEPT !.stackframe_size = Zero] ELSE s11))))

\* mutant: the registers restored in the order they were pushed
RECURSIVE PopRegsForward(_, _)
PopRegsForward(s, i) ==
    IF i < 0 THEN s
    ELSE Then(pop(s), LAMBDA p :
         Then(set_reg(p.st, W((7 - i) * 4), p.val), LAMBDA t : PopRegsForward(t, i - 1)))

\* for i in (0..8).rev() { let v = self.pop(); self.set_reg(i * 4, v) }
RECURSIVE PopRegs(_, _)
PopRegs(s, i) ==
    IF i < 0 THEN s
    ELSE Then(pop(s), LAMBDA p :
         Then(set_reg(p.st, W(i * 4), p.val), LAMBDA t : PopRegs(t, i - 1)))

\* mutant: the caller's arguments are left on the stack
PopArgsKept(s, n) == s

\* for _ in 0..arg_count { self.pop() }
RECURSIVE PopArgs(_, _)
PopArgs(s, n) ==
    IF ~Ok(s) \/ n = Zero THEN s
    ELSE Then(pop(s).st, LAMBDA t : PopArgs(t, WSub(n, W(1)).val))

pop_state(s) ==
    LET fp_addr == get_reg(s, W(fp))
    IN  Then(set_reg(s, W(sp), fp_addr), LAMBDA s1 :
        LET bumped == WAdd(s1.stackframe_size, W(4))
            s2 == Arith(s1, bumped)
            s3 == IF Ok(s2) THEN [s2 EXCEPT !.stackframe_size = bumped.val] ELSE s2
        IN  Then(pop(s3), LAMBDA p1 :
            LET s4 == IF Ok(p1.st) THEN [p1.st EXCEPT !.stackframe_size = p1.val]
                      ELSE p1.st
            IN  Then(pop(s4), LAMBDA p2 :
                Then(set_reg(p2.st, W(pc), p2.val), LAMBDA s5 :
                Then(PopRegs(s5, 7), LAMBDA s6 :
                Then(pop(s6), LAMBDA p3 :
                Then(PopArgs(p3.st, p3.val), LAMBDA s7 :
                LET newfp == WAdd(fp_addr, s7.stackframe_size)
                IN  set_reg(Arith(s7, newfp), W(fp), newfp.val))))))))

-----------------------------------------------------------------------------
(* Bitwise instruction handlers (instr_helper! / instr!) *)

\* get_reg on an operand address: the register file faults outside its buffer
reg_operand(s, addr) ==
    [st |-> IF RegOk(s, addr) THEN s ELSE Fault(s, "memory"), val |-> get_reg(s, addr)]

\* the function each opcode applies to its two operands
BitFn(instr, a, b) ==
    CASE instr \in {80, 81} -> wrapping_shl(a, b)
      [] instr \in {82, 83} -> wrapping_shr(a, b)
      [] instr \in {84, 85} -> rotate_left(a, b)
      [] instr \in {86, 87} -> rotate_right(a, b)
      [] instr \in {88, 89} -> WAnd(a, b)
      [] instr \in {90, 91} -> WOr(a, b)
      [] instr \in {92, 93} -> WXor(a, b)
      [] OTHER -> WNot(a)

\* mutant: the result is stored in acc as well
instr_helper_acc(s, instr, val1, val2, destination) ==
    LET res == BitFn(instr, val1, val2)
    IN  Then(set_reg(s, destination, res), LAMBDA t :
        Then(set_reg(t, W(acc), res), LAMBDA u : update_sr(u, val1, res)))

\* instr_helper!(cpu, val1, f, val2, destination)
instr_helper(s, instr, val1, val2, destination) ==
    LET res == BitFn(instr, val1, val2)
    IN  Then(set_reg(s, destination, res), LAMBDA t : update_sr(t, val1, res))

\* instr!(cpu, rw, f): register address, then a literal word
instr_rw(s, instr) ==
    Then(fetch_word(s), LAMBDA a :
    Then(reg_operand(a.st, a.val), LAMBDA r :
    Then(fetch_word(r.st), LAMBDA v :
    instr_helper(v.st, instr, r.val, v.val, a.val))))

\* instr!(cpu, rr, f): two register addresses
instr_rr(s, instr) ==
    Then(fetch_word(s), LAMBDA a1 :
    Then(fetch_word(a1.st), LAMBDA a2 :
    Then(reg_operand(a2.st, a1.val), LAMBDA v1 :
    Then(reg_operand(v1.st, a2.val), LAMBDA v2 :
    instr_helper(v2.st, instr, v1.val, v2.val, a1.val)))))

NOT(s) ==
    Then(fetch_word(s), LAMBDA a :
    Then(reg_operand(a.st, a.val), LAMBDA r :
    LET res == WNot(r.val)
    IN  Then(set_reg(r.st, a.val, res), LAMBDA t : update_sr(t, r.val, res))))

RwOps == {80, 82, 84, 86, 88, 90, 92}     \* LSF RSF WLSF WRSF AND OR XOR
RrOps == {81, 83, 85, 87, 89, 91, 93}     \* LSFR RSFR WLSFR WRSFR ANDR ORR XORR
NotOp == 94
BitOps == RwOps \cup RrOps \cup {NotOp}

\* opcodes of the dispatch table whose handlers are in the other instruction files
OtherOps == (1..5) \cup (16..30) \cup (32..43) \cup (48..73)

\* mutant: the byte after the last conditional instruction does nothing
execute_lenient(s, instr) ==
    IF ~Ok(s) THEN s
    ELSE CASE instr = 255 -> [s EXCEPT !.halt_signal = TRUE]
           [] instr \in {0, 74} -> s
           [] instr \in RwOps -> instr_rw(s, instr)
           [] instr \in RrOps -> instr_rr(s, instr)
           [] instr = NotOp -> NOT(s)
           [] instr \in OtherOps -> Fault(s, "unmodelled")
           [] OTHER -> Fault(s, "decode")

execute(s, instr) ==
    IF ~Ok(s) THEN s
    ELSE CASE instr = 255 -> [s EXCEPT !.halt_signal = TRUE]
           [] instr = 0 -> s
           [] instr \in RwOps -> instr_rw(s, instr)
           [] instr \in RrOps -> instr_rr(s, instr)
           [] instr = NotOp -> NOT(s)
           [] instr \in OtherOps -> Fault(s, "unmodelled")
           [] OTHER -> Fault(s, "decode")

\* mutant: one more byte is fetched after the halt
step_past_halt(s) ==
    Then(fetch_byte(s), LAMBDA f :
    Then(execute(f.st, f.val), LAMBDA t :
    IF t.halt_signal THEN fetch_byte(t).st ELSE t))

step(s) ==
    Then(fetch_byte(s), LAMBDA f : execute(f.st, f.val))

\* mutant: the first instruction is executed before stack_set is looked at
run_unchecked(s) ==
    Then(step(s), LAMBDA t :
    IF ~t.stack_set THEN Fault(t, "stack_not_set") ELSE t)

\* run(), up to its loop
run(s) ==
    IF ~Ok(s) THEN s
    ELSE IF ~s.stack_set THEN Fault(s, "stack_not_set")
    ELSE s

\* bytes of the memory window of the debugger (16 * 4)
DebugWindow == 64

\* for i in 0..16 * 4 { self.memory_mapper.get_byte(i) }
RECURSIVE ReadWindow(_, _)
ReadWindow(s, i) ==
    IF i = DebugWindow \/ ~Ok(s) THEN s
    ELSE ReadWindow(mm_get_byte(s, W(i)).st, i + 1)

\* run_debug(offset), up to its loop; the display itself is not modelled
run_debug(s, offset) ==
    IF ~Ok(s) THEN s
    ELSE IF ~s.stack_set THEN Fault(s, "stack_not_set")
    ELSE Then(Arith(s, WAdd(offset, offset)), LAMBDA t : ReadWindow(t, 0))

-----------------------------------------------------------------------------
(* Bounds and input sets *)

RamSize == 128        \* bytes of RAM behind the stack of the method-level runs
ExecRamSize == 32     \* bytes of RAM holding program and stack of the run loop
MaxOps == 7           \* method calls made by the embedder
MaxRegions == 2       \* regions mapped
MaxAccess == 1        \* mapper accesses per run
DevSize == 8          \* bytes of each mapped device
MaxRamOps == 4        \* map calls and accesses of a run over RAM-backed regions

AllOnes == <<Half - 1, Half - 1>>
Vals == {Zero, W(1), W(32), W(33), AllOnes, <<Half \div 2, 1>>}

-----------------------------------------------------------------------------
(* History records *)

NoFrame == [regs |-> <<>>, pc |-> Zero, fp0 |-> Zero, sp0 |-> Zero, sfs0 |-> Zero,
            fp1 |-> Zero, saved |-> <<>>, matched |-> FALSE, k |-> 0,
            spA |-> Zero, sfsA |-> Zero, outer |-> <<>>, clean |-> TRUE]

\* a push not yet popped: its word, sp and stackframe_size before it, and
\* whether only pushes and pops were called since
NoPush == [val |-> Zero, sp |-> Zero, sfs |-> Zero, plain |-> TRUE]

\* before, spb, sfsb: r1..r8, sp and stackframe_size when the method was called;
\* immediate: the method before it was push_state; mem: the devices when the
\* method was called; read: the address pop read its word from; paired, pushed:
\* the push of the current frame that a pop takes back
NoLast == [op |-> "none", frame |-> NoFrame, intact |-> FALSE,
           pre |-> Zero, post |-> Zero, val |-> Zero,
           before |-> <<>>, spb |-> Zero, sfsb |-> Zero, immediate |-> FALSE,
           mem |-> <<>>, read |-> <<>>, paired |-> FALSE, pushed |-> NoPush]

NoExec == [instr |-> 0, dest |-> Zero, pre |-> Zero, operand |-> Zero,
           res |-> Zero, pc0 |-> Zero, before |-> <<>>, src |-> Zero,
           mem |-> <<>>, sfs |-> Zero, halt |-> FALSE]

\* the accessor called, the address it was given, the fault it raised, the
\* device accessor it invoked with which address, what a get returned, and how
\* many regions had been mapped by then, and the devices and the region list
\* as they were before it
NoAccess == [op |-> "none", addr |-> Zero, fault |-> "none", device |-> 0,
             devaddr |-> Zero, word |-> Zero, byte |-> 0, maps |-> 0,
             devices |-> <<>>, regions |-> <<>>]

\* the address and value of the last set_word, and whether the word is still
\* where set_word put it
NoWritten == [addr |-> Zero, word |-> Zero, valid |-> FALSE]

\* the ten words push_state leaves above fp: size slot, pc, r8 .. r1
SavedWords(s, fpv) ==
    [i \in 1..10 |-> mm_get_word(s, WAdd(fpv, W(4 * i)).val).val]

GpRegs(s) == [i \in 1..8 |-> get_reg(s, W(4 * (i - 1)))]

-----------------------------------------------------------------------------
(* Construction *)

\* CPU::new(memory_mapper, pc) over one RAM device mapped at [0, size)
new(ram, pc0) ==
    /\ regions = map(<<>>, 1, Zero, W(Len(ram)), FALSE)
    /\ devices = [d \in {1} |-> ram]
    /\ registers = MemSetWord(MemNew(REGISTER_COUNT * 4), W(pc), pc0)
    /\ stackframe_size = Zero
    /\ halt_signal = FALSE
    /\ stack_start = Zero
    /\ stack_size = Zero
    /\ stack_set = FALSE
    /\ fault = "none"
    /\ overflow_checks \in BOOLEAN
    /\ running = FALSE
    /\ access = NoAccess
    /\ mapped = <<>>
    /\ written = NoWritten
    /\ frames = <<>>
    /\ cur = <<>>
    /\ last = NoLast
    /\ exec = NoExec
    /\ nops = 0
    /\ NoParse

Init == new(MemNew(RamSize), Zero)

mapVars == <<access, mapped, written>>
histVars == <<frames, cur, last>>

-----------------------------------------------------------------------------
(* The CPU's public methods, called by the embedder while run() is not      *)
(* executing.                                                               *)

Idle == ~running /\ fault = "none"

\* one more method call, within the bound
Call == nops < MaxOps /\ nops' = nops + 1

SetStack(stack_addr, size) ==
    /\ Idle /\ ~stack_set /\ Call
    /\ \E s \in {set_stack(M, stack_addr, size)} : Install(s)
    /\ last' = [NoLast EXCEPT !.op = "set_stack"]
    /\ UNCHANGED <<parseVars, running, mapVars, frames, cur, exec>>

SetReg(addr, val) ==
    /\ Idle /\ Call
    /\ get_reg(M, addr) # val
    /\ \E s \in {set_reg(M, addr, val)} : Install(s)
    /\ last' = [NoLast EXCEPT !.op = "set_reg", !.pre = addr, !.val = val]
    /\ UNCHANGED <<parseVars, running, mapVars, frames, cur, exec>>

UpdateSr(pre, post) ==
    /\ Idle /\ Call
    /\ \E s \in {update_sr(M, pre, post)} : Install(s)
    /\ last' = [NoLast EXCEPT !.op = "update_sr", !.pre = pre, !.post = post]
    /\ UNCHANGED <<parseVars, running, mapVars, frames, cur, exec>>

Push(val) ==
    /\ Idle /\ stack_set /\ Call
    /\ \E s \in {push(M, val)} :
           /\ Install(s)
           /\ cur' = IF Ok(s)
                     THEN Append(cur, [val |-> val, sp |-> get_reg(M, W(sp)),
                                       sfs |-> stackframe_size, plain |-> TRUE])
                     ELSE cur
    /\ last' = [NoLast EXCEPT !.op = "push", !.val = val,
                             !.spb = get_reg(M, W(sp)),
                             !.sfsb = stackframe_size,
                             !.mem = devices]
    /\ UNCHANGED <<parseVars, running, mapVars, frames, exec>>

Pop ==
    /\ Idle /\ stack_set /\ Call
    /\ \E p \in {pop(M)} :
           /\ Install(p.st)
           /\ last' = [NoLast EXCEPT !.op = "pop", !.val = p.val,
                                     !.spb = get_reg(M, W(sp)),
                                     !.sfsb = stackframe_size,
                                     !.read = p.read,
                                     !.paired = (cur # <<>>),
                                     !.pushed = IF cur = <<>> THEN NoPush
                                                ELSE cur[Len(cur)]]
    /\ cur' = IF cur = <<>> THEN cur ELSE SubSeq(cur, 1, Len(cur) - 1)
    /\ frames' = IF cur = <<>> /\ frames # <<>>
                 THEN [frames EXCEPT ![Len(frames)].clean = FALSE]
                 ELSE frames
    /\ UNCHANGED <<parseVars, running, mapVars, exec>>

PushState ==
    /\ Idle /\ stack_set /\ Call
    /\ \E s \in {push_state(M)} :
       LET n == Len(cur)
           k == IF n = 0 THEN -1 ELSE Idx(cur[n].val)
           matched == k >= 0 /\ k + 1 <= n
           first == IF matched THEN cur[n - k] ELSE NoPush
           frame == [regs |-> GpRegs(M), pc |-> get_reg(M, W(pc)),
                     fp0 |-> get_reg(M, W(fp)), sp0 |-> get_reg(M, W(sp)),
                     sfs0 |-> stackframe_size, fp1 |-> get_reg(s, W(fp)),
                     saved |-> SavedWords(s, get_reg(s, W(fp))),
                     matched |-> matched, k |-> IF matched THEN k ELSE 0,
                     spA |-> first.sp, sfsA |-> first.sfs, outer |-> cur,
                     clean |-> TRUE]
       IN  /\ Install(s)
           /\ frames' = IF Ok(s) THEN Append(frames, frame) ELSE frames
           /\ cur' = IF Ok(s) THEN <<>> ELSE cur
           /\ last' = [NoLast EXCEPT !.op = "push_state", !.frame = frame]
    /\ UNCHANGED <<parseVars, running, mapVars, exec>>

PopState ==
    /\ Idle /\ stack_set /\ Call
    /\ frames # <<>>
    /\ \E s \in {pop_state(M)} :
       LET frame == frames[Len(frames)]
           intact == /\ get_reg(M, W(fp)) = frame.fp1
                     /\ SavedWords(M, frame.fp1) = frame.saved
       IN  /\ Install(s)
           /\ frames' = SubSeq(frames, 1, Len(frames) - 1)
           /\ cur' = IF frame.matched /\ frame.clean /\ intact
                     THEN [i \in 1..(Len(frame.outer) - (frame.k + 1)) |->
                              [frame.outer[i] EXCEPT !.plain = FALSE]]
                     ELSE <<>>
           /\ last' = [NoLast EXCEPT !.op = "pop_state", !.frame = frame,
                                     !.intact = intact,
                                     !.before = GpRegs(M),
                                     !.spb = get_reg(M, W(sp)),
                                     !.sfsb = stackframe_size,
                                     !.immediate = (last.op = "push_state")]
    /\ UNCHANGED <<parseVars, running, mapVars, exec>>

StackCfgs == {<<W(RamSize), W(RamSize)>>, <<W(16), W(8)>>, <<W(8), W(8)>>}

Next ==
    \/ \E c \in StackCfgs : SetStack(c[1], c[2])
    \/ stack_set /\ \E a \in {r1, r8}, v \in {W(7)} : SetReg(W(a), v)
    \/ \E v \in {Zero, W(1)} : Push(v)
    \/ Pop
    \/ PushState
    \/ PopState

Spec == Init /\ [][Next]_vars

-----------------------------------------------------------------------------
(* Call frames: push_state / pop_state *)

Returned == last.op = "pop_state" /\ last.intact

\* C2: when pop_state runs with fp and the ten saved words as push_state left
\* them, r1..r8 and pc hold afterwards the values they had when push_state ran,
\* whatever the callee wrote to the registers and wherever its sp and
\* stackframe_size were.
C2_RegistersRestored ==
    Returned =>
        /\ GpRegs(M) = last.frame.regs
        /\ get_reg(M, W(pc)) = last.frame.pc

\* a return whose callee had changed a register, moved sp and grown its frame
C2_Witness ==
    /\ Returned /\ fault = "none"
    /\ last.before # last.frame.regs
    /\ last.spb # last.frame.fp1
    /\ last.sfsb # Zero

\* C3: the caller pushes k argument words, then the word k, then push_state
\* runs; after the matching pop_state sp is what it was before the first
\* argument was pushed.
C3_SpRestored ==
    (Returned /\ last.frame.matched) => get_reg(M, W(sp)) = last.frame.spA

\* a return from a call that was given one argument
C3_Witness ==
    Returned /\ last.frame.matched /\ last.frame.k = 1 /\ fault = "none"

\* C4: push_state immediately followed by pop_state, with the
\* arg_count word 0 pushed before, leaves fp as it was before push_state.
C4_FpRestored ==
    (Returned /\ last.immediate /\ last.frame.matched /\ last.frame.k = 0
        /\ fault = "none")
    => get_reg(M, W(fp)) = last.frame.fp0

\* C5: once the stack is set and while no fault was raised,
\* stackframe_size = fp - sp.
C5_FrameSizeIsFpMinusSp ==
    (stack_set /\ fault = "none")
    => stackframe_size = WSub(get_reg(M, W(fp)), get_reg(M, W(sp))).val

\* C6: after each pop_state, stackframe_size is what it was in the
\* caller just before the caller pushed the arguments and the arg_count word.
C6_FrameSizeRecovered ==
    (Returned /\ last.frame.matched /\ fault = "none")
    => stackframe_size = last.frame.sfsA

-----------------------------------------------------------------------------
(* The run loop over a program image: one bitwise instruction, then HALT.  *)

WBytes(w) == <<w[1] \div 256, w[1] % 256, w[2] \div 256, w[2] % 256>>

Prog(op, a, b) ==
    IF op = NotOp THEN <<op>> \o WBytes(a) \o <<255>>
    ELSE <<op>> \o WBytes(a) \o WBytes(b) \o <<255>>

Image(p) == [i \in 1..ExecRamSize |-> IF i <= Len(p) THEN p[i] ELSE 0]

\* register operands: r1, pc, sr, sp, fp, and an address past the register file
DestOperands == {W(r1), W(pc), W(sr), W(sp), W(fp), W(REGISTER_COUNT * 4)}
SrcOperands == {W(r1), W(r2)}

Programs ==
    {Prog(op, a, b) : op \in RwOps, a \in DestOperands, b \in Vals}
    \cup {Prog(op, a, b) : op \in RrOps, a \in DestOperands, b \in SrcOperands}
    \cup {Prog(NotOp, a, Zero) : a \in DestOperands}

InitExec == \E p \in Programs : new(Image(p), Zero)

\* what the instruction at pc is about to do: opcode, destination register
\* address, first operand, second operand and the result its handler computes
ExecInfo(s) ==
    LET f == fetch_byte(s)
        a == fetch_word(f.st)
        b == fetch_word(a.st)
        pre == IF f.val \in RrOps THEN get_reg(b.st, a.val) ELSE get_reg(a.st, a.val)
        operand == IF f.val \in RrOps THEN get_reg(b.st, b.val)
                   ELSE IF f.val \in RwOps THEN b.val ELSE Zero
    IN  [instr |-> f.val, dest |-> a.val, pre |-> pre, operand |-> operand,
         res |-> BitFn(f.val, pre, operand), pc0 |-> get_reg(s, W(pc)),
         before |-> s.registers, src |-> b.val, mem |-> s.devices,
         sfs |-> s.stackframe_size, halt |-> s.halt_signal]

\* run(): the stack must be set
Run ==
    /\ Idle /\ Call
    /\ \E s \in {run(M)} : Install(s) /\ running' = Ok(s)
    /\ last' = [NoLast EXCEPT !.op = "run", !.before = registers, !.mem = devices]
    /\ UNCHANGED <<parseVars, mapVars, frames, cur, exec>>

\* run_debug(offset): as run(), after the first display; every line of
\* operator input that is not a hex number is one turn of the loop
RunDebug(offset) ==
    /\ Idle /\ Call
    /\ \E s \in {run_debug(M, offset)} : Install(s) /\ running' = Ok(s)
    /\ last' = [NoLast EXCEPT !.op = "run_debug", !.before = registers,
                             !.mem = devices]
    /\ UNCHANGED <<parseVars, mapVars, frames, cur, exec>>

\* one turn of run()'s loop: while !self.halt_signal { self.step() }
Step ==
    /\ running /\ ~halt_signal /\ fault = "none"
    /\ \E s \in {step(M)} : Install(s)
    /\ exec' = ExecInfo(M)
    /\ UNCHANGED <<parseVars, running, mapVars, histVars, nops>>

\* run() returns once halt_signal is set
RunReturn ==
    /\ running /\ halt_signal /\ fault = "none"
    /\ running' = FALSE
    /\ UNCHANGED <<parseVars, regions, devices, registers, stackframe_size, halt_signal,
                   stack_start, stack_size, stack_set, fault, overflow_checks,
                   mapVars, histVars, exec, nops>>

NextExec ==
    \/ (~stack_set /\ \E a \in {r1}, v \in Vals :
            get_reg(M, W(a)) = Zero /\ SetReg(W(a), v))
    \/ (~stack_set /\ \E a \in {r2}, v \in {W(1), W(33), AllOnes} :
            get_reg(M, W(a)) = Zero /\ SetReg(W(a), v))
    \/ SetStack(W(ExecRamSize), W(ExecRamSize \div 2))
    \/ Run
    \/ RunDebug(Zero)
    \/ Step
    \/ RunReturn

SpecExec == InitExec /\ [][NextExec]_vars

\* the run has not left the part of the instruction set modelled here
ExecModelled == fault # "unmodelled"

\* an instruction has been executed to its end
Executed == exec.instr # 0 /\ fault = "none"

\* C1: once set_stack was called, after every executed
\* instruction either a fault was raised or
\* stack_start - stack_size <= sp <= stack_start - 4.
C1_SpInBounds ==
    (stack_set /\ Executed)
    => /\ WLe(WSub(stack_start, stack_size).val, get_reg(M, W(sp)))
       /\ WLe(get_reg(M, W(sp)), WSub(stack_start, W(4)).val)

\* C7: after a bitwise instruction, bit 0 of sr is 1 iff the result
\* is 0 and bit 1 of sr is 1 iff the first operand is greater than the result.
C7_FlagsAfterBitwise ==
    (exec.instr \in BitOps /\ fault = "none")
    => /\ (WBit(get_reg(M, W(sr)), 0) = 1) <=> (exec.res = Zero)
       /\ (WBit(get_reg(M, W(sr)), 1) = 1) <=> WLt(exec.res, exec.pre)

-----------------------------------------------------------------------------
(* The status register by itself *)

NextSr ==
    \/ \E pre \in Vals, post \in Vals : UpdateSr(pre, post)
    \/ \E v \in {W(3), AllOnes} : SetReg(W(sr), v)

SpecSr == Init /\ [][NextSr]_vars

\* C8: right after update_sr(pre, post), get_status_flag(0) is
\* (post == 0) and get_status_flag(1) is (pre > post).
C8_FlagsReadBack ==
    (last.op = "update_sr")
    => /\ get_status_flag(M, 0) <=> (last.post = Zero)
       /\ get_status_flag(M, 1) <=> WLt(last.post, last.pre)

-----------------------------------------------------------------------------
(* The memory mapper by itself: regions are mapped over two devices and     *)
(* bytes and words are read and written through the mapper.                 *)

Devs == {1, 2}
MapRanges == {<<Zero, W(8)>>, <<W(4), W(6)>>}
Addrs == {Zero, W(4), W(5), W(6), W(8)}
ByteVals == {171}
WordVals == {<<57005, 48879>>}

\* MemoryMapper::new(), no CPU at work
InitMap ==
    /\ regions = <<>>
    /\ devices = [d \in Devs |-> MemNew(DevSize)]
    /\ registers = MemNew(REGISTER_COUNT * 4)
    /\ stackframe_size = Zero
    /\ halt_signal = FALSE
    /\ stack_start = Zero
    /\ stack_size = Zero
    /\ stack_set = FALSE
    /\ fault = "none"
    /\ overflow_checks \in BOOLEAN
    /\ running = FALSE
    /\ access = NoAccess
    /\ mapped = <<>>
    /\ written = NoWritten
    /\ frames = <<>>
    /\ cur = <<>>
    /\ last = NoLast
    /\ exec = NoExec
    /\ nops = 0
    /\ NoParse

Map(device, start, end, remap) ==
    /\ fault = "none"
    /\ Len(regions) < MaxRegions
    /\ regions' = map(regions, device, start, end, remap)
    /\ mapped' = Append(mapped, Region(device, start, end, remap))
    /\ UNCHANGED <<parseVars, devices, cpuVars, overflow_checks, access, written, histVars,
                   exec, nops>>

\* one more access through the mapper, within the bound
Accessing == fault = "none" /\ nops < MaxAccess /\ nops' = nops + 1

Accessed(op, addr, n, word, byte) ==
    LET c == Dispatch(M, addr, n)
    IN  access' = [op |-> op, addr |-> addr, fault |-> c.fault, device |-> c.device,
                   devaddr |-> c.addr, word |-> word, byte |-> byte,
                   maps |-> Len(mapped), devices |-> devices, regions |-> regions]

GetWord(addr) ==
    /\ Accessing
    /\ \E g \in {mm_get_word(M, addr)} :
           Install(g.st) /\ Accessed("get_word", addr, 4, g.val, 0)
    /\ UNCHANGED <<parseVars, running, mapped, written, histVars, exec>>

GetByte(addr) ==
    /\ Accessing
    /\ \E g \in {mm_get_byte(M, addr)} :
           Install(g.st) /\ Accessed("get_byte", addr, 1, Zero, g.val)
    /\ UNCHANGED <<parseVars, running, mapped, written, histVars, exec>>

SetWord(addr, value) ==
    /\ Accessing
    /\ \E s \in {mm_set_word(M, addr, value)} : Install(s)
    /\ Accessed("set_word", addr, 4, value, 0)
    /\ UNCHANGED <<parseVars, running, mapped, written, histVars, exec>>

SetByte(addr, value) ==
    /\ Accessing
    /\ \E s \in {mm_set_byte(M, addr, value)} : Install(s)
    /\ Accessed("set_byte", addr, 1, Zero, value)
    /\ UNCHANGED <<parseVars, running, mapped, written, histVars, exec>>

NextMap ==
    \/ \E d \in Devs, r \in MapRanges, remap \in BOOLEAN : Map(d, r[1], r[2], remap)
    \/ \E a \in Addrs : GetWord(a)
    \/ \E a \in Addrs : GetByte(a)
    \/ \E a \in Addrs, w \in WordVals : SetWord(a, w)
    \/ \E a \in Addrs, b \in ByteVals : SetByte(a, b)

SpecMap == InitMap /\ [][NextMap]_vars

\* the map calls before the access, numbered in call order, whose
\* [start, end) contains a
Hits(a) == {i \in 1..access.maps : WLe(mapped[i].start, a) /\ WLt(a, mapped[i].end)}

\* the most recent of them
Latest(a) == CHOOSE i \in Hits(a) : \A j \in Hits(a) : j <= i

\* an access that reached a device accessor
Delivered == access.op # "none" /\ access.fault # "mapper"

\* C9: every access at address a is delivered to the device of the most
\* recently mapped region whose [start, end) contains a.
C9_MapperPrecedence ==
    Delivered =>
        /\ Hits(access.addr) # {}
        /\ access.device = mapped[Latest(access.addr)].device

\* an access inside two regions of different devices, and one that only the
\* earlier, broader region contains although a later one is mapped
C9_Witness ==
    /\ Delivered
    /\ access.maps = 2
    /\ mapped[1].device # mapped[2].device
    /\ \/ Hits(access.addr) = {1, 2}
       \/ Hits(access.addr) = {1}

\* C10: the address handed to the device is a - start when the region remaps
\* and a when it does not, for all four accessors.
C10_Remap ==
    Delivered =>
        LET r == mapped[Latest(access.addr)]
        IN  access.devaddr = IF r.remap
                             THEN W(Idx(access.addr) - Idx(r.start))
                             ELSE access.addr

\* a word written through a remapping region that does not start at 0
C10_Witness ==
    /\ Delivered
    /\ access.op = "set_word"
    /\ access.fault = "none"
    /\ mapped[Latest(access.addr)].remap
    /\ mapped[Latest(access.addr)].start # Zero
    /\ access.devaddr # access.addr

\* an access at an address that no mapped region contains
Missed == access.op # "none" /\ Hits(access.addr) = {}

\* C11: an access at an address in no region's [start, end) raises the fatal
\* fault of the mapper, invokes no device accessor and leaves the devices and
\* the region list as they were.
C11_MissIsFatal ==
    Missed =>
        /\ fault = "mapper"
        /\ access.fault = "mapper"
        /\ access.device = 0
        /\ devices = access.devices
        /\ regions = access.regions

\* a write at the end address of the only mapped region
C11_Witness ==
    /\ Missed
    /\ access.op \in {"set_word", "set_byte"}
    /\ access.maps = 1
    /\ access.addr = mapped[1].end
    /\ fault = "mapper"

-----------------------------------------------------------------------------
(* Words stored and read back through the mapper. Every region is backed by *)
(* a RAM of its own: map takes ownership of the device it is given.         *)

RamRegions == {<<Zero, W(8), FALSE>>, <<W(4), W(8), TRUE>>, <<W(4), W(8), FALSE>>}
RamAddrs == {Zero, W(4)}
RamWords == {<<57005, 48879>>, W(1)}

InitRam ==
    /\ regions = <<>>
    /\ devices = [d \in 1..MaxRegions |-> MemNew(DevSize)]
    /\ registers = MemNew(REGISTER_COUNT * 4)
    /\ stackframe_size = Zero
    /\ halt_signal = FALSE
    /\ stack_start = Zero
    /\ stack_size = Zero
    /\ stack_set = FALSE
    /\ fault = "none"
    /\ overflow_checks \in BOOLEAN
    /\ running = FALSE
    /\ access = NoAccess
    /\ mapped = <<>>
    /\ written = NoWritten
    /\ frames = <<>>
    /\ cur = <<>>
    /\ last = NoLast
    /\ exec = NoExec
    /\ nops = 0
    /\ NoParse

\* one more call on the mapper, within the bound
RamCall == fault = "none" /\ nops < MaxRamOps /\ nops' = nops + 1

\* the bytes addr .. addr + n - 1 and the word at a share a byte
Overlaps(addr, n, a) == Idx(addr) < Idx(a) + 4 /\ Idx(a) < Idx(addr) + n

\* map a fresh RAM
RamMap(start, end, remap) ==
    /\ RamCall
    /\ Len(regions) < MaxRegions
    /\ regions' = map(regions, Len(regions) + 1, start, end, remap)
    /\ mapped' = Append(mapped, Region(Len(regions) + 1, start, end, remap))
    /\ written' = IF WLe(start, written.addr) /\ WLt(written.addr, end)
                  THEN [written EXCEPT !.valid = FALSE] ELSE written
    /\ UNCHANGED <<parseVars, devices, cpuVars, overflow_checks, access, histVars, exec>>

RamSetWord(addr, value) ==
    /\ RamCall
    /\ \E s \in {mm_set_word(M, addr, value)} :
           /\ Install(s)
           /\ written' = IF s.fault = "none"
                         THEN [addr |-> addr, word |-> value, valid |-> TRUE]
                         ELSE written
    /\ Accessed("set_word", addr, 4, value, 0)
    /\ UNCHANGED <<parseVars, running, mapped, histVars, exec>>

RamSetByte(addr, value) ==
    /\ RamCall
    /\ \E s \in {mm_set_byte(M, addr, value)} : Install(s)
    /\ written' = IF Overlaps(addr, 1, written.addr)
                  THEN [written EXCEPT !.valid = FALSE] ELSE written
    /\ Accessed("set_byte", addr, 1, Zero, value)
    /\ UNCHANGED <<parseVars, running, mapped, histVars, exec>>

RamGetWord(addr) ==
    /\ RamCall
    /\ \E g \in {mm_get_word(M, addr)} :
           Install(g.st) /\ Accessed("get_word", addr, 4, g.val, 0)
    /\ UNCHANGED <<parseVars, running, mapped, written, histVars, exec>>

NextRam ==
    \/ \E r \in RamRegions : RamMap(r[1], r[2], r[3])
    \/ \E a \in RamAddrs, w \in RamWords : RamSetWord(a, w)
    \/ \E b \in ByteVals : RamSetByte(W(5), b)
    \/ \E a \in RamAddrs : RamGetWord(a)

SpecRam == InitRam /\ [][NextRam]_vars

\* get_word(a) has returned, after a set_word(a, w) whose word no later write
\* touched and whose address no later mapping took over
ReadBack ==
    /\ access.op = "get_word"
    /\ access.fault = "none"
    /\ written.valid
    /\ written.addr = access.addr

\* C12: get_word(a) after set_word(a, w), with no write to a .. a + 3 in
\* between, returns w, for a in a RAM-backed region mapped with or without
\* remap.
C12_WordRoundTrip == ReadBack => access.word = written.word

\* a word read back through a remapping region that does not start at 0
C12_Witness ==
    /\ ReadBack
    /\ access.word = <<57005, 48879>>
    /\ access.addr = W(4)
    /\ access.devaddr = Zero

-----------------------------------------------------------------------------
(* push and pop, under Spec. Word arithmetic is the wrapping arithmetic of   *)
(* the specification.                                                        *)

\* sp - 4 < stack_start - stack_size, for the sp that push found
PushGuard ==
    WLt(WSub(last.spb, W(4)).val, WSub(stack_start, stack_size).val)

\* C13: push(v) raises the stack-overflow fault exactly when
\* sp - 4 < stack_start - stack_size, and then has written no word and left sp
\* and stackframe_size alone; otherwise it writes v at the old sp, sets sp to
\* sp - 4 and adds 4 to stackframe_size.
C13_PushGuard ==
    (last.op = "push") =>
        IF PushGuard
        THEN /\ fault = "stack_overflow"
             /\ devices = last.mem
             /\ get_reg(M, W(sp)) = last.spb
             /\ stackframe_size = last.sfsb
        ELSE /\ fault = "none"
             /\ mm_get_word(M, last.spb).val = last.val
             /\ get_reg(M, W(sp)) = WSub(last.spb, W(4)).val
             /\ stackframe_size = WAdd(last.sfsb, W(4)).val

\* C14: a pop that takes back a push of the current frame returns the word of
\* that push and leaves sp and stackframe_size as they were before the push;
\* so n pops after n pushes return the words in reverse order and restore
\* sp and stackframe_size.
C14_LastInFirstOut ==
    (last.op = "pop" /\ last.paired /\ last.pushed.plain /\ fault = "none") =>
        /\ last.val = last.pushed.val
        /\ get_reg(M, W(sp)) = last.pushed.sp
        /\ stackframe_size = last.pushed.sfs

\* 0 and then 1 were pushed on the empty stack, and the second of two pops has
\* returned the 0
C14_Witness ==
    /\ last.op = "pop" /\ last.paired /\ last.pushed.plain /\ fault = "none"
    /\ cur = <<>>
    /\ frames = <<>>
    /\ last.val = Zero
    /\ stack_start = W(RamSize)
    /\ last.pushed.sp = WSub(stack_start, W(4)).val
    /\ mm_get_word(M, last.spb).val = W(1)

\* sp + 4 > stack_start - 3, for the sp that pop found
PopGuard ==
    WLt(WSub(stack_start, W(3)).val, WAdd(last.spb, W(4)).val)

-----------------------------------------------------------------------------
(* run(), run_debug() and the HALT instruction, under SpecExec               *)

\* C16: run() and run_debug() on a CPU whose stack was never set raise a fatal
\* fault before any instruction byte is fetched, and leave pc, all registers
\* and all device memory unchanged.
C16_StackMustBeSet ==
    (last.op \in {"run", "run_debug"} /\ ~stack_set) =>
        /\ fault = "stack_not_set"
        /\ ~running
        /\ exec = NoExec
        /\ registers = last.before
        /\ devices = last.mem

\* run_debug() was refused on a CPU whose r1 had been loaded
C16_Witness ==
    /\ last.op = "run_debug"
    /\ ~stack_set
    /\ fault = "stack_not_set"
    /\ MemGetWord(registers, W(r1)) = AllOnes

\* the step that sets halt_signal
Halts == ~halt_signal /\ halt_signal'

\* C17: run() returns only when halt_signal is set; the step that executes
\* opcode 0xFF sets halt_signal and changes nothing else but pc, which it
\* advances by 1; after it no further byte is fetched; nothing clears
\* halt_signal once it is set.
C17_Halting ==
    [][/\ halt_signal => halt_signal'
       /\ (running /\ ~running') => halt_signal
       /\ halt_signal => /\ exec' = exec
                         /\ registers' = registers
                         /\ devices' = devices
       /\ Halts => /\ exec'.instr = 255
                   /\ registers' = MemSetWord(registers, W(pc),
                                              WAdd(get_reg(M, W(pc)), W(1)).val)
                   /\ devices' = devices
                   /\ regions' = regions
                   /\ stackframe_size' = stackframe_size
                   /\ <<stack_start, stack_size, stack_set>>'
                          = <<stack_start, stack_size, stack_set>>
                   /\ fault' = fault]_vars

\* run() has returned after a bitwise instruction and the HALT behind it
C17_Witness ==
    /\ halt_signal
    /\ ~running
    /\ fault = "none"
    /\ last.op = "run"
    /\ exec.instr = 255
    /\ exec.pc0 = W(9)

-----------------------------------------------------------------------------
(* Decoding: a program whose first byte is any byte, followed by the        *)
(* operands of a bitwise instruction on r1 and by HALT.                     *)

Bytes == 0..255

\* opcode, register address of r1, then the literal 4 that is also the
\* address of r2; opcode and r1 alone for NOT
DecodeProg(op) ==
    IF op = NotOp THEN <<op>> \o WBytes(W(r1)) \o <<255>>
    ELSE <<op>> \o WBytes(W(r1)) \o WBytes(W(r2)) \o <<255>>

\* what r1 and r2 hold when the program starts
DecodeR1 == <<Half \div 2, 5>>
DecodeR2 == W(3)

InitDecode == \E op \in Bytes : new(Image(DecodeProg(op)), Zero)

NextDecode ==
    \/ (~stack_set /\ get_reg(M, W(r1)) = Zero /\ SetReg(W(r1), DecodeR1))
    \/ (~stack_set /\ get_reg(M, W(r1)) = DecodeR1 /\ SetReg(W(r2), DecodeR2))
    \/ (get_reg(M, W(r2)) = DecodeR2
            /\ SetStack(W(ExecRamSize), W(ExecRamSize \div 2)))
    \/ Run
    \/ Step
    \/ RunReturn

SpecDecode == InitDecode /\ [][NextDecode]_vars

\* the opcodes the dispatch table is said to define
DefinedOps ==
    {0, 255} \cup (1..5) \cup (16..30) \cup (32..43) \cup (48..73) \cup (80..94)

\* what the handler named for a bitwise opcode computes from the value x of its
\* first register, a literal word and the value of its second register
NamedHandler(op, x, literal, reg) ==
    CASE op = 80 -> wrapping_shl(x, literal)    \* LSF
      [] op = 81 -> wrapping_shl(x, reg)        \* LSFR
      [] op = 82 -> wrapping_shr(x, literal)    \* RSF
      [] op = 83 -> wrapping_shr(x, reg)        \* RSFR
      [] op = 84 -> rotate_left(x, literal)     \* WLSF
      [] op = 85 -> rotate_left(x, reg)         \* WLSFR
      [] op = 86 -> rotate_right(x, literal)    \* WRSF
      [] op = 87 -> rotate_right(x, reg)        \* WRSFR
      [] op = 88 -> WAnd(x, literal)            \* AND
      [] op = 89 -> WAnd(x, reg)                \* ANDR
      [] op = 90 -> WOr(x, literal)             \* OR
      [] op = 91 -> WOr(x, reg)                 \* ORR
      [] op = 92 -> WXor(x, literal)            \* XOR
      [] op = 93 -> WXor(x, reg)                \* XORR
      [] op = 94 -> WNot(x)                     \* NOT

\* step() has fetched an opcode
Stepped == exec.before # <<>>

\* C18: execute raises the fatal decode fault for every opcode byte outside
\* the defined set and for none inside it, and the opcodes 0x50 .. 0x5E run
\* LSF, LSFR, RSF, RSFR, WLSF, WLSFR, WRSF, WRSFR, AND, ANDR, OR, ORR, XOR,
\* XORR, NOT in that order.
C18_Decode ==
    Stepped =>
        /\ (fault = "decode") <=> (exec.instr \notin DefinedOps)
        /\ (exec.instr \in 80..94 /\ exec.pc0 = Zero /\ fault = "none")
               => get_reg(M, W(r1)) = NamedHandler(exec.instr, DecodeR1, W(r2), DecodeR2)

\* an undefined opcode between two defined ranges was refused
C18_Witness ==
    /\ Stepped
    /\ exec.instr = 74
    /\ fault = "decode"

-----------------------------------------------------------------------------
(* The program counter and the rotates, under SpecExec                      *)

\* encoded length of a bitwise instruction
Length(instr) == IF instr = NotOp THEN 5 ELSE 9

\* C19: fetch_byte returns the byte at pc and advances pc by 1, fetch_word
\* returns the word at pc and advances pc by 4, and every bitwise instruction,
\* for every register operand, ends with pc at its start address plus its
\* encoded length.
C19_PcAdvance ==
    /\ (running /\ fault = "none") =>
           LET at == get_reg(M, W(pc))
               b == fetch_byte(M)
               w == fetch_word(M)
           IN  /\ Ok(b.st) => /\ b.val = mm_get_byte(M, at).val
                              /\ get_reg(b.st, W(pc)) = WAdd(at, W(1)).val
               /\ Ok(w.st) => /\ w.val = mm_get_word(M, at).val
                              /\ get_reg(w.st, W(pc)) = WAdd(at, W(4)).val
    /\ (exec.instr \in BitOps /\ fault = "none") =>
           get_reg(M, W(pc)) = WAdd(exec.pc0, W(Length(exec.instr))).val

RECURSIVE Ones(_, _)
Ones(x, n) == IF n = 0 THEN 0 ELSE (x % 2) + Ones(x \div 2, n - 1)

\* number of 1-bits of a word
PopCount(a) == Ones(a[1], 16) + Ones(a[2], 16)

\* WLSF, WLSFR, WRSF, WRSFR
Rotates == 84..87

\* C20: the value a rotate writes to its destination register has as many
\* 1-bits as the value x the register held, for every rotation amount, literal
\* or from a register, also 32 and more.
C20_RotateKeepsBits ==
    (exec.instr \in Rotates /\ fault = "none") =>
        /\ PopCount(exec.res) = PopCount(exec.pre)
        /\ (exec.dest \notin {W(sr), W(pc)}) => get_reg(M, exec.dest) = exec.res

\* 0x80000001 rotated by 33 in r1
C20_Witness ==
    /\ exec.instr \in Rotates
    /\ fault = "none"
    /\ exec.dest = W(r1)
    /\ exec.pre = <<Half \div 2, 1>>
    /\ exec.operand = W(33)
    /\ get_reg(M, W(r1)) \in {W(3), <<Half + (Half \div 2), 0>>}

-----------------------------------------------------------------------------
(* Results of the logical instructions *)

\* AND, ANDR, OR, ORR, XOR, XORR, NOT
Logicals == 88..94

\* the word the instruction set names for a logical opcode:
\* a AND v, a OR v, a XOR v, or the 32-bit complement of a
Logical(instr, a, v) ==
    IF instr \in {88, 89} THEN WAnd(a, v)
    ELSE IF instr \in {90, 91} THEN WOr(a, v)
    ELSE IF instr \in {92, 93} THEN WXor(a, v)
    ELSE <<(Half - 1) - a[1], (Half - 1) - a[2]>>

\* C21: after AND/OR/XOR R, v (v a literal) and ANDR/ORR/XORR R, R2 (v the
\* value of R2), register R holds old[R] AND v, old[R] OR v, old[R] XOR v,
\* and after NOT R the 32-bit complement of old[R], for every register
\* address R.
C21_InPlace ==
    (exec.instr \in Logicals /\ fault = "none") =>
        get_reg(M, exec.dest) = Logical(exec.instr, exec.pre, exec.operand)

-----------------------------------------------------------------------------
(* Shift amounts *)

\* LSF, LSFR, RSF, RSFR
Shifts == 80..83

\* bit i of x << n and of x >> n, for 0 <= n < 32, from the bits of x
ShlBit(x, n, i) == IF i >= n THEN WBit(x, i - n) ELSE 0
ShrBit(x, n, i) == IF i + n <= 31 THEN WBit(x, i + n) ELSE 0

\* C24: LSF/LSFR compute x << (k mod 32) truncated to 32 bits and RSF/RSFR
\* x >> (k mod 32) for every word x and amount k; a shift by a multiple of 32
\* leaves the register as it was; a shift of a register never faults.
C24_ShiftMod32 ==
    /\ (exec.instr \in Shifts /\ fault = "none") =>
           LET n == (exec.operand[1] * (Half % 32) + exec.operand[2]) % 32
           IN  /\ \A i \in 0..31 :
                      WBit(exec.res, i) = IF exec.instr \in {80, 81}
                                          THEN ShlBit(exec.pre, n, i)
                                          ELSE ShrBit(exec.pre, n, i)
               /\ (exec.dest \notin {W(sr), W(pc)}) =>
                      get_reg(M, exec.dest) = exec.res
               /\ (n = 0 /\ exec.dest \notin {W(sr), W(pc)}) =>
                      get_reg(M, exec.dest) = exec.pre
    /\ (exec.instr \in Shifts /\ exec.dest \in {W(r1), W(sp), W(fp), W(sr)}) =>
           fault = "none"

\* 0x80000001 in r1 shifted by 32: the amount is 0 and r1 keeps its value
C24_Witness ==
    /\ exec.instr \in Shifts
    /\ fault = "none"
    /\ exec.dest = W(r1)
    /\ exec.pre = <<Half \div 2, 1>>
    /\ exec.operand = W(32)
    /\ get_reg(M, W(r1)) = <<Half \div 2, 1>>

-----------------------------------------------------------------------------
(* Frame of a bitwise instruction *)

\* the byte offsets of the register at address a
RegBytes(a) == IF a[1] = 0 THEN a[2]..(a[2] + 3) ELSE {}

\* C25: a bitwise instruction (0x50..0x5E) changes only the destination
\* register (its first register operand), sr and pc: every other byte of the
\* register file, the second register operand included, every device behind
\* the memory mapper, stackframe_size and halt_signal are as before it.
C25_Frame ==
    (exec.instr \in BitOps /\ fault = "none") =>
        /\ \A i \in 0..(REGISTER_COUNT * 4 - 1) :
               (i \notin RegBytes(exec.dest) \cup RegBytes(W(sr)) \cup RegBytes(W(pc)))
               => registers[i + 1] = exec.before[i + 1]
        /\ devices = exec.mem
        /\ stackframe_size = exec.sfs
        /\ halt_signal = exec.halt

\* LSFR .. XORR r1, r2 with r2 = 33: r1 changes, r2 keeps 33
C25_Witness ==
    /\ exec.instr \in RrOps
    /\ fault = "none"
    /\ exec.dest = W(r1)
    /\ exec.src = W(r2)
    /\ get_reg(M, W(r1)) # exec.pre
    /\ get_reg(M, W(r2)) = W(33)
    /\ get_reg(M, W(acc)) = Zero

-----------------------------------------------------------------------------
(* Stack capacity: set_stack, then pushes only *)

\* set_stack(a, n) with n a multiple of 4 and 4 <= n <= a
CapacityCfgs == {<<W(16), W(4)>>, <<W(16), W(8)>>, <<W(24), W(12)>>,
                 <<W(16), W(16)>>, <<W(8), W(8)>>}

NextStack ==
    \/ \E c \in CapacityCfgs : SetStack(c[1], c[2])
    \/ \E v \in {W(1), W(7), AllOnes} : Push(v)

SpecStack == Init /\ [][NextStack]_vars

\* the pushes that succeeded since set_stack
Pushed == Len(cur)

\* n/4 - 1
Capacity == (stack_size[2] \div 4) - 1

\* C26: after set_stack(a, n), n a multiple of 4 and 4 <= n <= a, exactly
\* n/4 - 1 consecutive pushes succeed and the next one raises stack overflow;
\* every pushed word is written at an address in [a - n + 4, a - 4], and the
\* word at a - n is never written by push.
C26_StackCapacity ==
    stack_set =>
        /\ (last.op = "push") =>
               \/ fault = "none" /\ Pushed <= Capacity
               \/ fault = "stack_overflow" /\ Pushed = Capacity
        /\ \A i \in 1..Pushed :
               /\ WLe(WAdd(WSub(stack_start, stack_size).val, W(4)).val, cur[i].sp)
               /\ WLe(cur[i].sp, WSub(stack_start, W(4)).val)
        /\ MemGetWord(devices[1], WSub(stack_start, stack_size).val) = Zero

-----------------------------------------------------------------------------
(* Word accesses across a region boundary *)

\* region i of the list as it was at the access contains address a
Holds(i, a) == WLe(access.regions[i].start, a) /\ WLt(a, access.regions[i].end)

\* scanning from the front, the first region that contains a (0: none)
FirstHit(a) ==
    IF \E i \in 1..Len(access.regions) : Holds(i, a)
    THEN CHOOSE i \in 1..Len(access.regions) :
             Holds(i, a) /\ \A j \in 1..(i - 1) : ~Holds(j, a)
    ELSE 0

\* a word access whose first byte lies in a region
WordAccess == access.op \in {"get_word", "set_word"} /\ FirstHit(access.addr) # 0

\* C27: get_word(a) and set_word(a, v) choose the region X from a alone and
\* make one device call: the whole word goes to X's device at a, or at
\* a - start when X is remapped, also when a + 1 .. a + 3 lie in another
\* region or in none; no other device is touched, no mapper fault is raised.
C27_WordByFirstByte ==
    WordAccess =>
        LET x == access.regions[FirstHit(access.addr)]
            at == IF x.remap THEN WSub(access.addr, x.start).val ELSE access.addr
            inside == MemOk(access.devices[x.device], at, 4)
        IN  /\ fault = IF inside THEN "none" ELSE "memory"
            /\ \A d \in Devs : d # x.device => devices[d] = access.devices[d]
            /\ (access.op = "get_word" /\ inside) =>
                   /\ access.word = MemGetWord(access.devices[x.device], at)
                   /\ devices = access.devices
            /\ (access.op = "set_word" /\ inside) =>
                   devices[x.device] = MemSetWord(access.devices[x.device], at, access.word)
            /\ ~inside => devices = access.devices

\* set_word(5, v) with [4, 6) remapped onto device 1 in front of [0, 8) on
\* device 2: bytes 6 and 7 belong to the other region, 8 to none
C27_Witness ==
    /\ access.op = "set_word"
    /\ access.addr = W(5)
    /\ Len(access.regions) = 2
    /\ access.regions[1] = Region(1, W(4), W(6), TRUE)
    /\ access.regions[2] = Region(2, Zero, W(8), FALSE)
    /\ fault = "none"
    /\ MemGetWord(devices[1], W(1)) = access.word
    /\ devices[2] = MemNew(DevSize)

-----------------------------------------------------------------------------
(* The parser-combinator library.  A text is a sequence of characters, a    *)
(* Context a text and a position in it.  A parser is kept as the expression *)
(* that built it: <<"string", target>>, <<"regex", pattern, expected>>,     *)
(* <<"optional", p>>, <<"sequence", a, b>>, <<"map", p, mapper>>,           *)
(* <<"many", p>>, <<"spaces">>; Apply calls it on a Context.  A result is   *)
(* Ok(Success) or Err(Failure): ok tells which.                             *)

success(ctx, val) == [ok |-> TRUE, val |-> val, ctx |-> ctx, exp |-> <<>>]

failure(ctx, exp) == [ok |-> FALSE, val |-> <<>>, ctx |-> ctx, exp |-> exp]

\* txt.slice(pos..)
slice(txt, pos) == SubSeq(txt, pos + 1, Len(txt))

starts_with(s, target) ==
    Len(target) <= Len(s) /\ SubSeq(s, 1, Len(target)) = target

string(target, ctx) ==
    IF starts_with(slice(ctx.txt, ctx.pos), target)
    THEN success([ctx EXCEPT !.pos = @ + Len(target)], target)
    ELSE failure(ctx, target)

\* the number of leading characters of s that are in class
RECURSIVE Lead(_, _)
Lead(s, class) ==
    IF s # <<>> /\ s[1] \in class THEN 1 + Lead(Tail(s), class) ELSE 0

\* a pattern [class]{min,max} is <<class, min, max>>; Regex::find gives the
\* leftmost match, as many characters of it as the pattern allows
find(pattern, s) ==
    LET class == pattern[1]
        min == pattern[2]
        max == pattern[3]
        fits(i) == Lead(slice(s, i), class) >= min
        got(i) == IF Lead(slice(s, i), class) < max
                  THEN Lead(slice(s, i), class) ELSE max
    IN  IF \E i \in 0..Len(s) : fits(i)
        THEN LET start == CHOOSE i \in 0..Len(s) :
                              fits(i) /\ \A j \in 0..(i - 1) : ~fits(j)
             IN  [is_some |-> TRUE, start |-> start, end |-> start + got(start)]
        ELSE [is_some |-> FALSE, start |-> 0, end |-> 0]

regex(target, expected, ctx) ==
    LET sliced_ctx == slice(ctx.txt, ctx.pos)
        mat == find(target, sliced_ctx)
    IN  IF mat.is_some /\ mat.start = 0
        THEN success([ctx EXCEPT !.pos = @ + mat.end],
                     SubSeq(sliced_ctx, mat.start + 1, mat.end))
        ELSE failure(ctx, expected)

RECURSIVE Apply(_, _)

optional(p, ctx) ==
    LET res == Apply(p, ctx)
    IN  IF ~res.ok THEN success(res.ctx, <<"None">>)
        ELSE success(res.ctx, <<"Some", res.val>>)

\* mutant: when b fails, the error is put at the position sequence was
\* called at
sequence_rewound(a, b, ctx) ==
    LET res_a == Apply(a, ctx)
    IN  IF ~res_a.ok THEN res_a
        ELSE LET res_b == Apply(b, res_a.ctx)
             IN  IF ~res_b.ok THEN failure(ctx, res_b.exp)
                 ELSE success(res_b.ctx, <<res_a.val, res_b.val>>)

sequence(a, b, ctx) ==
    LET res_a == Apply(a, ctx)
    IN  IF ~res_a.ok THEN res_a
        ELSE LET res_b == Apply(b, res_a.ctx)
             IN  IF ~res_b.ok THEN res_b
                 ELSE success(res_b.ctx, <<res_a.val, res_b.val>>)

\* s.join(""): the strings of a vector, one after the other
RECURSIVE join(_)
join(s) == IF s = <<>> THEN <<>> ELSE Head(s) \o join(Tail(s))

\* the mapper functions in use: Ok(s.join("")), and one that refuses
mapper_call(mapper, v) ==
    IF mapper = "join" THEN [ok |-> TRUE, val |-> join(v), err |-> <<>>]
    ELSE [ok |-> FALSE, val |-> <<>>, err |-> <<"mapping()">>]

parser_map(p, mapper, ctx) ==
    LET res == Apply(p, ctx)
    IN  IF ~res.ok THEN res
        ELSE LET new_res == mapper_call(mapper, res.val)
             IN  IF new_res.ok THEN success(res.ctx, new_res.val)
                 ELSE failure(res.ctx, new_res.err)

\* mutant: a miss on the first application is a success with no values
many_turn_empty(p, ctx, r) ==
    LET res == Apply(p, ctx)
    IN  IF ~res.ok
        THEN [done |-> TRUE, ctx |-> ctx, ret |-> r, out |-> success(ctx, r)]
        ELSE [done |-> FALSE, ctx |-> res.ctx, ret |-> Append(r, res.val),
              out |-> <<>>]

\* one turn of many's loop with context ctx and the values r collected so far
many_turn(p, ctx, r) ==
    LET res == Apply(p, ctx)
    IN  IF ~res.ok
        THEN [done |-> TRUE, ctx |-> ctx, ret |-> r,
              out |-> IF Len(r) = 0 THEN failure(res.ctx, res.exp)
                      ELSE success(ctx, r)]
        ELSE [done |-> FALSE, ctx |-> res.ctx, ret |-> Append(r, res.val),
              out |-> <<>>]

\* many's loop, to its return
RECURSIVE many_loop(_, _, _)
many_loop(p, ctx, r) ==
    LET t == many_turn(p, ctx, r)
    IN  IF t.done THEN t.out ELSE many_loop(p, t.ctx, t.ret)

many(p, ctx) == many_loop(p, ctx, <<>>)

spaces(ctx) == parser_map(<<"many", <<"string", <<" ">>>>>>, "join", ctx)

Apply(p, ctx) ==
    CASE p[1] = "string" -> string(p[2], ctx)
      [] p[1] = "regex" -> regex(p[2], p[3], ctx)
      [] p[1] = "optional" -> optional(p[2], ctx)
      [] p[1] = "sequence" -> sequence(p[2], p[3], ctx)
      [] p[1] = "map" -> parser_map(p[2], p[3], ctx)
      [] p[1] = "many" -> many(p[2], ctx)
      [] p[1] = "spaces" -> spaces(ctx)

\* parse(txt, parser): the error message's expectation and position, or the value
parse(txt, p) ==
    LET res == Apply(p, [txt |-> txt, pos |-> 0])
    IN  IF ~res.ok THEN [is_err |-> TRUE, exp |-> res.exp, pos |-> res.ctx.pos]
        ELSE [is_err |-> FALSE, val |-> res.val]

-----------------------------------------------------------------------------
(* Parsers at work: a parser is called with a Context *)

MaxLen == 3

Chars == {"a", "b", " "}

\* the texts of up to MaxLen characters
Texts == UNION {[1..n -> Chars] : n \in 0..MaxLen}

\* string(""), string("a"), string("ab"), string(" ")
Strings == {<<"string", t>> : t \in {<<>>, <<"a">>, <<"a", "b">>, <<" ">>}}

\* regex(".{1}", "anything"), regex("a*", "as"), regex("b+", "bs")
AnyChar == <<"regex", <<Chars, 1, 1>>, <<"anything">>>>
ManyAs == <<"regex", <<{"a"}, 0, MaxLen + 1>>, <<"as">>>>
SomeBs == <<"regex", <<{"b"}, 1, MaxLen + 1>>, <<"bs">>>>

Primitives == Strings \cup {AnyChar, ManyAs, SomeBs}

StrA == <<"string", <<"a">>>>
StrB == <<"string", <<"b">>>>
StrSp == <<"string", <<" ">>>>
AThenB == <<"sequence", StrA, StrB>>
Refused == <<"map", StrA, "refuse">>

Sequences ==
    {<<"sequence", x, y>> : x, y \in {StrA, StrB, StrSp, ManyAs, SomeBs}}
    \cup {<<"sequence", AThenB, StrSp>>,
          <<"sequence", StrA, <<"sequence", StrB, StrSp>>>>,
          <<"sequence", StrA, <<"spaces">>>>,
          <<"sequence", <<"sequence", StrA, <<"spaces">>>>, StrB>>,
          <<"sequence", <<"optional", StrA>>, StrB>>,
          <<"sequence", <<"optional", AThenB>>, StrA>>,
          <<"sequence", StrA, Refused>>}

Optionals ==
    {<<"optional", x>> : x \in Primitives}
    \cup {<<"optional", AThenB>>,
          <<"optional", <<"sequence", StrA, <<"sequence", StrB, StrSp>>>>>>,
          <<"optional", <<"spaces">>>>,
          <<"optional", Refused>>}

Manys ==
    {<<"many", x>> : x \in Primitives}
    \cup {<<"many", <<"optional", StrA>>>>,
          <<"many", AThenB>>,
          <<"many", <<"sequence", StrA, <<"optional", StrB>>>>>>}

Parsers ==
    Primitives \cup Sequences \cup Optionals \cup Manys
    \cup {<<"spaces">>, Refused, <<"map", <<"many", StrA>>, "join">>}

\* no virtual machine at work
NoMachine ==
    /\ regions = <<>>
    /\ devices = <<>>
    /\ registers = MemNew(REGISTER_COUNT * 4)
    /\ stackframe_size = Zero
    /\ halt_signal = FALSE
    /\ stack_start = Zero
    /\ stack_size = Zero
    /\ stack_set = FALSE
    /\ fault = "none"
    /\ overflow_checks = FALSE
    /\ running = FALSE
    /\ access = NoAccess
    /\ mapped = <<>>
    /\ written = NoWritten
    /\ frames = <<>>
    /\ cur = <<>>
    /\ last = NoLast
    /\ exec = NoExec
    /\ nops = 0

\* a parser is about to be called with a Context
InitParse ==
    /\ NoMachine
    /\ \E t \in Texts : \E i \in 0..Len(t) : input = [txt |-> t, pos |-> i]
    /\ parser \in Parsers
    /\ loop_ctx = [txt |-> <<>>, pos |-> 0]
    /\ ret = <<>>
    /\ result = <<>>
    /\ phase = "called"
    /\ tick = 0

\* the values of ret the model keeps: more than any parser that consumes
\* input can collect from a text
MaxRet == MaxLen + 1

\* a parser other than many(p) is called and returns
Parse ==
    /\ phase = "called"
    /\ parser[1] # "many"
    /\ result' = Apply(parser, input)
    /\ phase' = "done"
    /\ UNCHANGED <<vars_machine, input, parser, loop_ctx, ret, tick>>

\* many(p) is called: let mut ret = Vec::new(), then the loop
ManyEnter ==
    /\ phase = "called"
    /\ parser[1] = "many"
    /\ loop_ctx' = input
    /\ ret' = <<>>
    /\ phase' = "many"
    /\ UNCHANGED <<vars_machine, input, parser, result, tick>>

\* one turn of many's loop: it returns, or goes on with the next context
ManyTurn ==
    /\ phase = "many"
    /\ \E t \in {many_turn(parser[2], loop_ctx, ret)} :
           IF t.done
           THEN /\ result' = t.out
                /\ phase' = "done"
                /\ UNCHANGED <<loop_ctx, ret, tick>>
           ELSE /\ loop_ctx' = t.ctx
                /\ ret' = IF Len(t.ret) <= MaxRet THEN t.ret ELSE ret
                /\ tick' = 1 - tick
                /\ UNCHANGED <<result, phase>>
    /\ UNCHANGED <<vars_machine, input, parser>>

NextParse == Parse \/ ManyEnter \/ ManyTurn

\* many's loop, once entered, goes on turn after turn until it returns
SpecParse == InitParse /\ [][NextParse]_vars /\ WF_vars(ManyTurn)

-----------------------------------------------------------------------------
(* sequence *)

\* sequence(a, b) was called and has returned
SequenceDone == phase = "done" /\ parser[1] = "sequence"

\* sequence(a, b) succeeds iff a succeeds at the input position and b at the
\* position where a ended, with the pair of their values and b's end position
SequenceSuccess ==
    LET ra == Apply(parser[2], input)
        rb == Apply(parser[3], ra.ctx)
    IN  /\ result.ok <=> (ra.ok /\ rb.ok)
        /\ result.ok => /\ result.val = <<ra.val, rb.val>>
                        /\ result.ctx = rb.ctx

\* C22 as stated: sequence(a, b) succeeds iff a succeeds at the input position
\* and b at the position where a ended, with the pair of values and b's end
\* position; if a fails the error is a's expectation at the input position; if
\* b fails it is b's expectation at the position where b was attempted, after
\* a's match, which is the position parse reports.
C22_SequenceAsStated ==
    SequenceDone =>
        LET ra == Apply(parser[2], input)
            rb == Apply(parser[3], ra.ctx)
        IN  /\ SequenceSuccess
            /\ ~ra.ok => /\ result.exp = ra.exp
                         /\ result.ctx.pos = input.pos
            /\ (ra.ok /\ ~rb.ok) =>
                   /\ result.exp = rb.exp
                   /\ result.ctx.pos = ra.ctx.pos
                   /\ (input.pos = 0) =>
                          parse(input.txt, parser).pos = ra.ctx.pos

\* string and regex parsers fail at the position they are called at
Primitive(p) == p[1] \in {"string", "regex"}

\* C22, amended: success as stated; if a fails the error is a's own failure,
\* with the expectation and the position a reports (the input position when a
\* is a string or regex parser); if b fails the error is b's own failure when
\* attempted after a's match (at that position when b is a string or regex
\* parser); parse reports the failure's position.
C22_Sequence ==
    SequenceDone =>
        LET ra == Apply(parser[2], input)
            rb == Apply(parser[3], ra.ctx)
        IN  /\ SequenceSuccess
            /\ ~ra.ok => /\ result = ra
                         /\ Primitive(parser[2]) => result.ctx = input
            /\ (ra.ok /\ ~rb.ok) =>
                   /\ result = rb
                   /\ Primitive(parser[3]) => result.ctx = ra.ctx
            /\ (~result.ok /\ input.pos = 0) =>
                   /\ parse(input.txt, parser).is_err
                   /\ parse(input.txt, parser).exp = result.exp
                   /\ parse(input.txt, parser).pos = result.ctx.pos

\* sequence(sequence(string("a"), string("b")), string(" ")) on a text that
\* starts with "a" but not with "ab": the error is "b" at position 1
C22_Witness ==
    /\ SequenceDone
    /\ parser = <<"sequence", AThenB, StrSp>>
    /\ input.pos = 0
    /\ ~result.ok
    /\ result.exp = <<"b">>
    /\ result.ctx.pos = 1

-----------------------------------------------------------------------------
(* many *)

\* many(p) was called and has returned
ManyDone == phase = "done" /\ parser[1] = "many"

\* vals[i], vals[i + 1], ... are the values of consecutive successful
\* applications of p from ctx on, the application after the last of them
\* fails, and end is the context the last of them ended at
RECURSIVE Consecutive(_, _, _, _, _)
Consecutive(p, ctx, vals, i, end) ==
    LET r == Apply(p, ctx)
    IN  IF i > Len(vals) THEN ~r.ok /\ end = ctx
        ELSE r.ok /\ r.val = vals[i] /\ Consecutive(p, r.ctx, vals, i + 1, end)

\* the spaces at the head of s
Blank(s) == SubSeq(s, 1, Lead(s, {" "}))

\* C23: many(p) fails with p's own expectation and position when p fails at
\* the input position; otherwise it succeeds with the values of all
\* consecutive successful applications of p, in input order, at the position
\* just after the last of them.  So spaces() needs one space at least and
\* takes the whole run of spaces.
C23_Many ==
    /\ ManyDone =>
           LET first == Apply(parser[2], input)
           IN  /\ ~first.ok => /\ ~result.ok
                               /\ result.exp = first.exp
                               /\ result.ctx = first.ctx
               /\ first.ok => /\ result.ok
                              /\ Len(result.val) >= 1
                              /\ Consecutive(parser[2], input, result.val, 1,
                                             result.ctx)
    /\ (phase = "done" /\ parser = <<"spaces">>) =>
           LET blanks == Blank(slice(input.txt, input.pos))
           IN  /\ result.ok <=> blanks # <<>>
               /\ result.ok => /\ result.val = blanks
                               /\ result.ctx.pos = input.pos + Len(blanks)
               /\ ~result.ok => /\ result.exp = <<" ">>
                                /\ result.ctx = input

\* many(string("a")) on "aab": two values, position 2
C23_Witness ==
    /\ ManyDone
    /\ parser = <<"many", StrA>>
    /\ input = [txt |-> <<"a", "a", "b">>, pos |-> 0]
    /\ result.ok
    /\ result.val = <<<<"a">>, <<"a">>>>
    /\ result.ctx.pos = 2

-----------------------------------------------------------------------------
(* optional *)

\* optional(p) was called and has returned
OptionalDone == phase = "done" /\ parser[1] = "optional"

\* C28: optional(p) returns success for every parser p and every context:
\* Some(p's value) at p's end position when p succeeds, None at the input
\* position when p fails, also when p is a sequence whose first part matched
\* before its second part failed.
C28_Optional ==
    OptionalDone =>
        LET r == Apply(parser[2], input)
        IN  /\ result.ok
            /\ r.ok => /\ result.val = <<"Some", r.val>>
                       /\ result.ctx = r.ctx
            /\ ~r.ok => /\ result.val = <<"None">>
                        /\ result.ctx.pos = input.pos

-----------------------------------------------------------------------------
(* Termination of many *)

\* C29: many(p) returns a result after finitely many applications of p, for
\* every text and every parser p that itself terminates, also one that can
\* succeed without consuming input, such as optional(q) or a regex that
\* matches the empty string.
C29_ManyTerminates == (phase = "many") ~> (phase = "done")

====
